---------------------------- MODULE Spec2Model ----------------------------
(***************************************************************************)
(* Model of backup_to_s3.py: one script, main(), run again and again by    *)
(* an outside scheduler over a source tree (LOCAL_DIR) that other          *)
(* programs keep modifying.                                                *)
(*                                                                         *)
(* Time is an integer count of days (datetime.now()); a file's state is    *)
(* its modification time, which also names the version of its content.     *)
(*                                                                         *)
(* Two specifications:                                                     *)
(*   Spec         the script as it executes: create_zip evaluates          *)
(*                shutil.ZipFile (line 49); the shutil module has no such  *)
(*                attribute, so the call raises AttributeError before any  *)
(*                archive is opened, nothing in main catches it, and the   *)
(*                run ends there.                                          *)
(*   SpecArchive  Spec plus the behaviours in which create_zip returns     *)
(*                normally with the archive written, so that lines         *)
(*                102-109 of main (upload, removal of the archive) are     *)
(*                executed.  Every behaviour of Spec is one of             *)
(*                SpecArchive: a safety property of SpecArchive is one of  *)
(*                Spec.                                                    *)
(***************************************************************************)
EXTENDS Integers, Sequences, FiniteSets

(* ---------------------------- bounds ----------------------------------- *)

\* Depth of the source tree: one file in LOCAL_DIR and one in each nested
\* directory below it, down to this depth.
MaxDepth == 2

\* How many days the clock may advance during a behaviour.
MaxTicks == 1

(* ------------------------ program constants ---------------------------- *)

\* RETENTION_DAYS = 15 (line 15)
RETENTION_DAYS == 15

\* timedelta(days=30) in get_last_run_time (line 24)
DEFAULT_DAYS == 30

(* --------------------------- the source tree --------------------------- *)

\* Relative path (below LOCAL_DIR) of the file at depth i: i-1 directory
\* names and a file name.
RelPath(i) == [k \in 1..i |-> IF k = i THEN "file" ELSE "dir"]

\* The files that may exist under LOCAL_DIR, each named by its relative path.
Files == {RelPath(i) : i \in 1..MaxDepth}

\* os.path.join(root, file)
Join(root, file) == Append(root, file)

\* LOCAL_DIR as a path; every path the walk yields starts with it.
LOCAL_DIR == <<"LOCAL_DIR">>

\* os.path.relpath(file, LOCAL_DIR) for a path below LOCAL_DIR
RelTo(path, start) == SubSeq(path, Len(start) + 1, Len(path))

\* Directories below LOCAL_DIR (as absolute paths), LOCAL_DIR included.
Dirs == {LOCAL_DIR \o [k \in 1..n |-> "dir"] : n \in 0..(MaxDepth - 1)}

\* Ages (in days before the initial instant) of the files present initially,
\* at the edge of the retention window (a day later it is past it) and past
\* the 30-day default; a file of age 0 is one the environment has just written.
InitAges == {RETENTION_DAYS, DEFAULT_DAYS + 1}

\* Age of the marker left by an earlier run, when there is one.
InitMarkerAges == {1}

UploadOutcomes == {"ok", "FileNotFoundError", "NoCredentialsError", "Exception"}

VARIABLES
  now,            \* datetime.now()
  fs,             \* LOCAL_DIR: relative path of each file present -> its mtime
  backupDir,      \* os.path.exists(BACKUP_DIR)
  marker,         \* LOG_FILE (inside BACKUP_DIR): <<>> when missing, else <<time>>
  zips,           \* names of the archives present in BACKUP_DIR
  s3,             \* file versions held by the objects uploaded to S3_BUCKET
  pc,             \* position of main
  last_run_time,  \* main's local
  defaulted,      \* get_last_run_time took the branch of line 24
  new_files,      \* main's local: list of absolute paths
  zip_file_name,  \* main's local: <<>> until line 96 sets it
  archive,        \* entries written into this run's archive
  upload_outcome, \* what s3_client.upload_file did in this run
  log,            \* the steps of main this run has completed, in order
  deleted,        \* files os.remove'd by this run's delete_old_files
  unarchived,     \* files modified since they were last put into an archive
  owed            \* files that were unarchived when this run started

vars == <<now, fs, backupDir, marker, zips, s3, pc, last_run_time, defaulted,
          new_files, zip_file_name, archive, upload_outcome, log, deleted,
          unarchived, owed>>

locals == <<last_run_time, defaulted, new_files, zip_file_name, archive,
            upload_outcome, deleted, owed>>

store == <<backupDir, marker, zips, s3>>

Present(f) == f \in DOMAIN fs

(* --------------------------- pure functions ---------------------------- *)

\* os.walk(source_dir), lines 38-40 and 74-76: the files of a directory,
\* then those of each of its subdirectories, as absolute paths.
RECURSIVE Walk(_)
Walk(root) ==
  LET here == IF RelTo(Join(root, "file"), LOCAL_DIR) \in Files
                 /\ Present(RelTo(Join(root, "file"), LOCAL_DIR))
              THEN <<Join(root, "file")>> ELSE <<>>
      sub  == Join(root, "dir")
  IN  IF sub \in Dirs THEN here \o Walk(sub) ELSE here

\* line 41: modified after the last run
IsNew(mtime, since) == mtime > since

\* lines 37-43
get_new_files(source_dir, since) ==
  SelectSeq(Walk(source_dir), LAMBDA p : IsNew(fs[RelTo(p, LOCAL_DIR)], since))

\* IsOld with the comparison of line 78 made inclusive
IsOldInclusive(mtime, cutoff_time) == mtime <= cutoff_time

\* line 78: older than the retention period
IsOld(mtime, cutoff_time) == mtime < cutoff_time

\* lines 73-79: the files delete_old_files removes
old_files(source_dir, retention_days) ==
  LET cutoff_time == now - retention_days
  IN  {RelTo(Walk(source_dir)[i], LOCAL_DIR) : i \in
         {j \in 1..Len(Walk(source_dir)) :
            IsOld(fs[RelTo(Walk(source_dir)[j], LOCAL_DIR)], cutoff_time)}}

\* main has returned, or an exception has left it
RunEnded == pc \in {"done", "aborted"}

\* this run has completed the step
Done(step) == \E i \in 1..Len(log) : log[i] = step

\* relative paths of the files of a list of absolute paths
RelNames(paths) == {RelTo(paths[i], LOCAL_DIR) : i \in 1..Len(paths)}

(* ------------------------------- Init ---------------------------------- *)

Init ==
  /\ now = 0
  /\ fs \in UNION {[S -> {0 - a : a \in InitAges}] : S \in SUBSET Files}
  /\ backupDir \in BOOLEAN
  /\ marker \in (IF backupDir THEN {<<>>} \cup {<<0 - a>> : a \in InitMarkerAges}
                 ELSE {<<>>})
  /\ zips = {}
  /\ s3 = {}
  /\ pc = "idle"
  /\ last_run_time = 0
  /\ defaulted = FALSE
  /\ new_files = <<>>
  /\ zip_file_name = <<>>
  /\ archive = {}
  /\ upload_outcome = "none"
  /\ log = <<>>
  /\ deleted = {}
  /\ unarchived = {}
  /\ owed = {}

(* --------------------------- steps of main ----------------------------- *)

\* line 84, get_last_run_time (lines 21-24): a new run starts
ReadMarker ==
  /\ pc = "idle"
  /\ last_run_time' = IF marker # <<>> THEN marker[1] ELSE now - DEFAULT_DAYS
  /\ defaulted' = (marker = <<>>)
  /\ owed' = {f \in unarchived : Present(f)}
  /\ log' = <<"read">>
  /\ pc' = "scan"
  /\ UNCHANGED <<now, fs, store, new_files, zip_file_name, archive,
                 upload_outcome, deleted, unarchived>>

\* lines 88-91
AfterScan(found) == IF found = <<>> THEN "prune" ELSE "prepare"

\* line 88, get_new_files
Scan ==
  /\ pc = "scan"
  /\ new_files' = get_new_files(LOCAL_DIR, last_run_time)
  /\ log' = Append(log, "scan")
  /\ pc' = AfterScan(new_files')
  /\ UNCHANGED <<now, fs, store, last_run_time, defaulted, zip_file_name,
                 archive, upload_outcome, deleted, unarchived, owed>>

\* lines 93-97: makedirs when BACKUP_DIR is missing, then the archive's name
PrepareArchive ==
  /\ pc = "prepare"
  /\ backupDir' = TRUE
  /\ log' = IF backupDir THEN log ELSE Append(log, "mkdir")
  /\ zip_file_name' = <<now>>
  /\ pc' = "zip"
  /\ UNCHANGED <<now, fs, marker, zips, s3, last_run_time, defaulted, new_files,
                 archive, upload_outcome, deleted, unarchived, owed>>

\* line 100 -> line 49: shutil.ZipFile raises AttributeError; main ends
CreateZipRaises ==
  /\ pc = "zip"
  /\ pc' = "aborted"
  /\ UNCHANGED <<now, fs, store, locals, log, unarchived>>

\* lines 49-52 when the archive class resolves: every listed file is written
\* under its path relative to LOCAL_DIR, with the content it has now
CreateZipReturns ==
  /\ pc = "zip"
  /\ archive' = {[arcname |-> RelTo(new_files[i], LOCAL_DIR),
                  mtime   |-> fs[RelTo(new_files[i], LOCAL_DIR)]] :
                   i \in 1..Len(new_files)}
  /\ zips' = zips \cup {zip_file_name[1]}
  /\ unarchived' = unarchived \ {RelTo(new_files[i], LOCAL_DIR) : i \in 1..Len(new_files)}
  /\ log' = Append(log, "zip")
  /\ pc' = "upload"
  /\ UNCHANGED <<now, fs, backupDir, marker, s3, last_run_time, defaulted,
                 new_files, zip_file_name, upload_outcome, deleted, owed>>

\* Caught without the handler of lines 66-67
CaughtByNameOnly(outcome) ==
  outcome \in {"FileNotFoundError", "NoCredentialsError"}

\* lines 59-67: the exceptions of upload_file that upload_to_s3 catches
Caught(outcome) ==
  outcome \in {"FileNotFoundError", "NoCredentialsError", "Exception"}

\* line 105, upload_to_s3 (lines 58-67); then main goes on to line 108
Upload ==
  /\ pc = "upload"
  /\ \E outcome \in UploadOutcomes :
       /\ upload_outcome' = outcome
       /\ s3' = IF outcome = "ok" THEN s3 \cup archive ELSE s3
       /\ pc' = IF outcome = "ok" \/ Caught(outcome) THEN "rmzip" ELSE "aborted"
  /\ log' = Append(log, "upload")
  /\ UNCHANGED <<now, fs, backupDir, marker, zips, last_run_time, defaulted,
                 new_files, zip_file_name, archive, deleted, unarchived, owed>>

\* line 109: the files left in BACKUP_DIR by os.remove(zip_file_path)
remove_zip(present, name) == present \ {name}

\* AfterRemoveZip with steps 6 and 7 of main exchanged
AfterRemoveZipMarksFirst == "mark"

\* lines 109-113: what main does after removing the archive
AfterRemoveZip == "prune"

\* lines 108-109
RemoveZip ==
  /\ pc = "rmzip"
  /\ zips' = remove_zip(zips, zip_file_name[1])
  /\ log' = Append(log, "rmzip")
  /\ pc' = AfterRemoveZip
  /\ UNCHANGED <<now, fs, backupDir, marker, s3, locals, unarchived>>

\* line 113, delete_old_files (lines 73-80)
Prune ==
  /\ pc = "prune"
  /\ deleted' = old_files(LOCAL_DIR, RETENTION_DAYS)
  /\ fs' = [f \in DOMAIN fs \ deleted' |-> fs[f]]
  /\ log' = Append(log, "prune")
  /\ pc' = "mark"
  /\ UNCHANGED <<now, store, last_run_time, defaulted, new_files, zip_file_name,
                 archive, upload_outcome, unarchived, owed>>

\* line 116, update_last_run_time (lines 30-31): open(LOG_FILE, "w") needs
\* BACKUP_DIR, the directory of LOG_FILE (lines 13-14), and raises
\* FileNotFoundError without it
UpdateMarker ==
  /\ pc = "mark"
  /\ marker' = IF backupDir THEN <<now>> ELSE marker
  /\ log' = IF backupDir THEN Append(log, "mark") ELSE log
  /\ pc' = IF backupDir THEN "done" ELSE "aborted"
  /\ UNCHANGED <<now, fs, backupDir, zips, s3, locals, unarchived>>

\* lines 118-121, or the uncaught exception: the process ends and its locals
\* with it; the scheduler may start the script again
Exit ==
  /\ pc \in {"done", "aborted"}
  /\ pc' = "idle"
  /\ last_run_time' = 0
  /\ defaulted' = FALSE
  /\ new_files' = <<>>
  /\ zip_file_name' = <<>>
  /\ archive' = {}
  /\ upload_outcome' = "none"
  /\ deleted' = {}
  /\ owed' = {}
  /\ log' = <<>>
  /\ UNCHANGED <<now, fs, store, unarchived>>

(* --------------------------- the environment --------------------------- *)

\* The environment's steps commute with Exit, so none is taken between the
\* end of a run and Exit.
Running == pc \notin {"done", "aborted"}

\* Another program writes (or creates) a file of the source tree.  The clock
\* of the model is coarser than the machine's: a file written after the marker
\* carries a time later than the marker's, so none is written in the marker's
\* own instant.
Modify ==
  \E f \in Files :
    /\ Running
    /\ marker # <<now>>
    /\ ~(Present(f) /\ fs[f] = now)
    /\ fs' = [g \in DOMAIN fs \cup {f} |-> IF g = f THEN now ELSE fs[g]]
    /\ unarchived' = unarchived \cup {f}
    /\ UNCHANGED <<now, store, pc, locals, log>>

\* A day passes.
Tick ==
  /\ Running
  /\ now < MaxTicks
  /\ now' = now + 1
  /\ UNCHANGED <<fs, store, pc, locals, log, unarchived>>

(* -------------------------- specifications ----------------------------- *)

Next ==
  \/ ReadMarker
  \/ Scan
  \/ PrepareArchive
  \/ CreateZipRaises
  \/ Prune
  \/ UpdateMarker
  \/ Exit
  \/ Modify
  \/ Tick

Spec == Init /\ [][Next]_vars

NextArchive ==
  \/ ReadMarker
  \/ Scan
  \/ PrepareArchive
  \/ CreateZipRaises
  \/ CreateZipReturns
  \/ Upload
  \/ RemoveZip
  \/ Prune
  \/ UpdateMarker
  \/ Exit
  \/ Modify
  \/ Tick

SpecArchive == Init /\ [][NextArchive]_vars

(* ---------------------------- properties ------------------------------- *)

ArchivedFiles == {e.arcname : e \in archive}

\* C1: in every run the files put into the archive are exactly the files
\* under the source tree whose modification time is strictly later than the
\* last-run time read at the start of the run: the scan selects exactly those
\* files, and when the run ends its archive holds exactly the selected files.
C1_ArchiveHoldsTheModifiedFiles ==
  [][ /\ (pc = "scan" /\ pc' # "scan") =>
           RelNames(new_files') = {f \in DOMAIN fs : fs[f] > last_run_time}
      /\ (~RunEnded /\ RunEnded') => ArchivedFiles' = RelNames(new_files')
    ]_vars

Failures == {"FileNotFoundError", "NoCredentialsError", "Exception"}

C3_NextRunSelectsEveryModifiedFile ==
  Done("scan") => owed \subseteq RelNames(new_files)

\* C4: every run that starts ends with the run timestamp written to the
\* marker file, whatever state it starts from.
C4_EveryRunWritesMarker ==
  RunEnded => (pc = "done" /\ Done("mark") /\ marker # <<>>)

\* C5: when the marker file does not exist, the run treats every file present
\* in the source tree as modified since the last run and selects it.
C5_FirstRunSelectsEveryFile ==
  [][(pc = "scan" /\ pc' # "scan" /\ defaulted) =>
        RelNames(new_files') = DOMAIN fs]_vars

\* C6: pruning deletes exactly the files of the source tree whose modification
\* time is strictly earlier than the time of pruning minus RETENTION_DAYS and
\* leaves the modification time of every other file as it was; no step of any
\* run deletes a file whose modification time is within the retention window.
C6_PruneDeletesExactlyTheOldFiles ==
  [][ /\ (pc = "prune" /\ pc' # "prune") =>
           /\ DOMAIN fs' = {f \in DOMAIN fs : ~(fs[f] < now - RETENTION_DAYS)}
           /\ \A f \in DOMAIN fs' : fs'[f] = fs[f]
      /\ \A f \in DOMAIN fs :
           fs[f] >= now - RETENTION_DAYS => f \in DOMAIN fs'
    ]_vars

\* C6 witness: a prune has deleted a file in a subdirectory and has kept a
\* file whose modification time is exactly the cutoff.
C6_Witness ==
  /\ pc = "mark"
  /\ \E f \in deleted : Len(f) > 1
  /\ \E f \in DOMAIN fs : fs[f] = now - RETENTION_DAYS

StepOrder ==
  <<"read", "scan", "mkdir", "zip", "upload", "rmzip", "prune", "mark">>

Rank(step) == CHOOSE i \in 1..Len(StepOrder) : StepOrder[i] = step

C9_NothingNewStillPrunesAndMarks ==
  (RunEnded /\ Done("scan") /\ new_files = <<>>) =>
     /\ archive = {} /\ zip_file_name = <<>>
     /\ ~Done("mkdir") /\ ~Done("upload")
     /\ Done("prune") /\ Done("mark")

\* C10: no data is lost by pruning: a file is deleted from the source tree
\* only if the version deleted is held by an archive whose upload succeeded.
C10_DeletedOnlyIfUploaded ==
  [][\A f \in DOMAIN fs \ DOMAIN fs' :
        [arcname |-> f, mtime |-> fs[f]] \in s3]_vars

====
